---- MODULE Spec2Model ----
(***************************************************************************)
(* A model of yahoo_query.py: the column repair and session resampling of  *)
(* get_data, the weekly resampling, the signal predicates, analyze_symbol  *)
(* and the per-instrument loop of main.                                    *)
(*                                                                         *)
(* Time is counted in ticks of 30 minutes from a Monday 00:00, so that a   *)
(* day is 48 ticks and a calendar week (Monday..Sunday, the bins of        *)
(* resample("W") and the weeks of isocalendar()) is 336 ticks.  A daily    *)
(* candle carries the calendar day of its index label (day 0 is a Monday). *)
(* A Python call either returns a value or raises: [exc, val].             *)
(***************************************************************************)
EXTENDS Integers, Sequences, FiniteSets, TLC

VARIABLES
  pc,        \* position of the running scenario
  data,      \* the Daily Candle Series handed to the predicates
  out,       \* what the last evaluated function returned or raised
  idx,       \* main: position of the for loop in the configured universe
  test,      \* main: outcome of the pre-flight yf.download of the current symbol
  rows,      \* main: group_results, the rows appended so far
  calls,     \* main: the calls made so far, in order (pre-flight, analyze_symbol)
  columns,   \* get_data: the column layout being repaired
  bars,      \* get_data: the hourly Bar Series
  cfg        \* get_data: the instrument configuration (mode, tz, offset)

vars == <<pc, data, out, idx, test, rows, calls, columns, bars, cfg>>

-----------------------------------------------------------------------------
(* Bounds of the model *)

\* longest Daily Candle Series handed to the predicates
MaxLen == 3

\* candles of the month scenario that lie before the trailing month window
Extra == 8

\* longest Daily Candle Series of the weekly scenario
MaxDays == 4

\* widest column layout handed to the column repair
MaxCols == 5

\* days of hourly bars handed to the session resampling
NumDays == 6

-----------------------------------------------------------------------------
(* Python values *)

TICK == "tick"
CROSS == "cross"

Ret(v) == [exc |-> "none", val |-> v]
Raise(e) == [exc |-> e, val |-> FALSE]

Min2(a, b) == IF a <= b THEN a ELSE b
Max2(a, b) == IF a >= b THEN a ELSE b

\* Series.max() / Series.min() of one column over a non-empty run of candles
ColMax(s, f) == CHOOSE m \in {s[i][f] : i \in DOMAIN s} : \A i \in DOMAIN s : s[i][f] <= m
ColMin(s, f) == CHOOSE m \in {s[i][f] : i \in DOMAIN s} : \A i \in DOMAIN s : s[i][f] >= m

\* Series.tail(k): the last k entries, or all of them when there are fewer
tail(s, k) == SubSeq(s, Max2(1, Len(s) - k + 1), Len(s))

\* Series.iloc[-k] is in bounds exactly when the series has at least k entries
InBounds(s, k) == Len(s) >= k
iloc(s, k) == s[Len(s) - k + 1]

-----------------------------------------------------------------------------
(* get_weekly_data and the weekly predicates *)

WeekOf(day) == day \div 7
\* isocalendar().week, with every year taken as 52 weeks long
IsoWeek(day) == (WeekOf(day) % 52) + 1

RECURSIVE SortedSeq(_)
SortedSeq(S) ==
  IF S = {} THEN <<>>
  ELSE LET m == CHOOSE x \in S : \A y \in S : x <= y
       IN <<m>> \o SortedSeq(S \ {m})

SelectWeek(s, w) == SelectSeq(s, LAMBDA c : WeekOf(c.day) = w)

\* get_weekly_data with "first" for the Close column too
get_weekly_data_close_first(s) ==
  LET weeks == SortedSeq({WeekOf(s[i].day) : i \in DOMAIN s})
  IN [k \in DOMAIN weeks |->
        LET d == SelectWeek(s, weeks[k])
        IN [week |-> weeks[k],
            Open |-> d[1].Open,
            High |-> ColMax(d, "High"),
            Low |-> ColMin(d, "Low"),
            Close |-> d[1].Close]]

\* data.resample("W").agg(first/max/min/last).dropna(): one candle per
\* calendar week that holds a daily candle, ascending
get_weekly_data(s) ==
  LET weeks == SortedSeq({WeekOf(s[i].day) : i \in DOMAIN s})
  IN [k \in DOMAIN weeks |->
        LET d == SelectWeek(s, weeks[k])
        IN [week |-> weeks[k],
            Open |-> d[1].Open,
            High |-> ColMax(d, "High"),
            Low |-> ColMin(d, "Low"),
            Close |-> d[Len(d)].Close]]

is_inside_week(s) ==
  LET wk == get_weekly_data(s)
  IN IF Len(wk) < 2 THEN Ret(FALSE)
     ELSE Ret(iloc(wk, 1).High <= iloc(wk, 2).High /\ iloc(wk, 1).Low >= iloc(wk, 2).Low)

\* in_previous_week_range reading the current week from the last closed
\* session (index -2) instead of the latest candle
in_previous_week_range_closed(s) ==
  LET wk == get_weekly_data(s)
  IN IF Len(wk) < 2 THEN Ret(FALSE)
     ELSE LET current_week_number == IsoWeek(iloc(s, 2).day)
              this_week == SelectSeq(s, LAMBDA c : IsoWeek(c.day) = current_week_number)
          IN IF this_week = <<>> THEN Ret(FALSE)
             ELSE Ret(ColMax(this_week, "High") <= iloc(wk, 2).High
                      /\ ColMin(this_week, "Low") >= iloc(wk, 2).Low)

in_previous_week_range(s) ==
  LET wk == get_weekly_data(s)
  IN IF Len(wk) < 2 THEN Ret(FALSE)
     ELSE LET current_week_number == IsoWeek(iloc(s, 1).day)
              this_week == SelectSeq(s, LAMBDA c : IsoWeek(c.day) = current_week_number)
          IN IF this_week = <<>> THEN Ret(FALSE)
             ELSE Ret(ColMax(this_week, "High") <= iloc(wk, 2).High
                      /\ ColMin(this_week, "Low") >= iloc(wk, 2).Low)

-----------------------------------------------------------------------------
(* The daily predicates, on the last fully closed session (index -2) *)

\* the trailing windows of the of-month and of-week predicates
MonthWindow == 22
WeekWindow == 5

\* is_high_of_month without the tail: the maximum of the whole series
is_high_of_month_whole(s) ==
  IF ~InBounds(s, 2) THEN Raise("IndexError")
  ELSE Ret(iloc(s, 2).High = ColMax(s, "High"))

is_high_of_month(s) ==
  IF ~InBounds(s, 2) THEN Raise("IndexError")
  ELSE Ret(iloc(s, 2).High = ColMax(tail(s, MonthWindow), "High"))

is_high_of_week(s) ==
  IF ~InBounds(s, 2) THEN Raise("IndexError")
  ELSE Ret(iloc(s, 2).High = ColMax(tail(s, WeekWindow), "High"))

is_low_of_month(s) ==
  IF ~InBounds(s, 2) THEN Raise("IndexError")
  ELSE Ret(iloc(s, 2).Low = ColMin(tail(s, MonthWindow), "Low"))

is_low_of_week(s) ==
  IF ~InBounds(s, 2) THEN Raise("IndexError")
  ELSE Ret(iloc(s, 2).Low = ColMin(tail(s, WeekWindow), "Low"))

\* is_red_day with the history guard asking for three candles
is_red_day_guard3(s) ==
  IF Len(s) > 2 THEN Ret(iloc(s, 2).Close < iloc(s, 2).Open) ELSE Ret(FALSE)

is_red_day(s) ==
  IF Len(s) > 1 THEN Ret(iloc(s, 2).Close < iloc(s, 2).Open) ELSE Ret(FALSE)

\* is_green_day with >= for >: a flat session counts as green
is_green_day_geq(s) ==
  IF Len(s) > 1 THEN Ret(iloc(s, 2).Close >= iloc(s, 2).Open) ELSE Ret(FALSE)

is_green_day(s) ==
  IF Len(s) > 1 THEN Ret(iloc(s, 2).Close > iloc(s, 2).Open) ELSE Ret(FALSE)

is_inside_day(s) ==
  IF ~InBounds(s, 2) \/ ~InBounds(s, 3) THEN Raise("IndexError")
  ELSE Ret(iloc(s, 2).High <= iloc(s, 3).High /\ iloc(s, 2).Low >= iloc(s, 3).Low)

-----------------------------------------------------------------------------
(* get_data: the repair of the column labels (lines 16-26)                   *)
(*                                                                           *)
(* A label is the sequence of the parts that "_" separates: <<"Open">> is    *)
(* "Open", <<"cl=f", "open">> is "cl=f_open".  A layout is [multi, cols]:    *)
(* with multi (a pd.MultiIndex) every column is a pair <<level0, level1>>    *)
(* of labels, otherwise a label.                                             *)

Name(w) == <<w>>
Canonical == <<Name("Open"), Name("High"), Name("Low"), Name("Close"), Name("Volume")>>
Required == {Name("Open"), Name("High"), Name("Low"), Name("Close")}

\* "_" in str(c)
HasSeparator(c) == Len(c) > 1

\* str.title() on the words the layouts use
Title(w) ==
  CASE w \in {"open", "OPEN", "Open"} -> "Open"
    [] w \in {"high", "HIGH", "High"} -> "High"
    [] w \in {"low", "LOW", "Low"} -> "Low"
    [] w \in {"close", "CLOSE", "Close"} -> "Close"
    [] w \in {"volume", "Volume"} -> "Volume"
    [] w \in {"price", "Price"} -> "Price"
    [] OTHER -> w

\* str(c).split("_")[-1].title()
TitledSuffix(c) == Name(Title(c[Len(c)]))

Labels(c) == {c[i] : i \in DOMAIN c}

\* line 26: "Adj Close" and "AdjClose" become "Close"
Rename(c) ==
  [i \in DOMAIN c |-> IF c[i] \in {Name("Adj Close"), Name("AdjClose")} THEN Name("Close") ELSE c[i]]

Rule2Matches(c) == Len(c) >= 5 /\ Cardinality(Labels(c)) = 1
Rule3Matches(c) == \A i \in DOMAIN c : HasSeparator(c[i])
Rule4Matches(c) == ~(Required \subseteq Labels(c))

\* line 20; assigning five names to more than five columns raises
Rule2(c) == IF Len(c) = 5 THEN Ret(Canonical) ELSE Raise("ValueError")
\* line 22
Rule3(c) == Ret([i \in DOMAIN c |-> TitledSuffix(c[i])])
\* lines 24-25
Rule4(c) ==
  LET named == SubSeq(Canonical, 1, Min2(4, Len(c)))
  IN Ret(named \o SubSeq(c, Len(named) + 1, Len(c)))

\* the repair with the positional rule tried on its own, not as the last
\* branch of the chain
fix_columns_rule4_unchained(layout) ==
  LET c1 == IF layout.multi THEN [i \in DOMAIN layout.cols |-> layout.cols[i][2]] ELSE layout.cols
      r1 == IF layout.multi THEN {1} ELSE {}
      chain == IF Rule2Matches(c1) THEN 2 ELSE IF Rule3Matches(c1) THEN 3 ELSE 0
      done == CASE chain = 2 -> Rule2(c1) [] chain = 3 -> Rule3(c1) [] OTHER -> Ret(c1)
      r4 == done.exc = "none" /\ Rule4Matches(done.val)
      last == IF r4 THEN Rule4(done.val) ELSE done
  IN [exc |-> last.exc,
      cols |-> IF last.exc = "none" THEN Rename(last.val) ELSE c1,
      applied |-> r1 \cup (IF chain = 0 THEN {} ELSE {chain}) \cup (IF r4 THEN {4} ELSE {})]

\* lines 17-26: what the labels become, and the rules that relabelled them
fix_columns(layout) ==
  LET c1 == IF layout.multi THEN [i \in DOMAIN layout.cols |-> layout.cols[i][2]] ELSE layout.cols
      r1 == IF layout.multi THEN {1} ELSE {}
      chain == IF Rule2Matches(c1) THEN 2
               ELSE IF Rule3Matches(c1) THEN 3
               ELSE IF Rule4Matches(c1) THEN 4
               ELSE 0
      done == CASE chain = 2 -> Rule2(c1)
                [] chain = 3 -> Rule3(c1)
                [] chain = 4 -> Rule4(c1)
                [] OTHER -> Ret(c1)
  IN [exc |-> done.exc,
      cols |-> IF done.exc = "none" THEN Rename(done.val) ELSE c1,
      applied |-> r1 \cup (IF chain = 0 THEN {} ELSE {chain})]

-----------------------------------------------------------------------------
(* get_data: the session resampling (lines 34-51)                            *)
(*                                                                           *)
(* A bar carries its UTC tick t.  A timezone is its fixed distance from UTC  *)
(* in ticks (daylight saving is left out), an offset is the cutoff in ticks  *)
(* after local midnight.                                                     *)

DayTicks == 2 * 24
WeekTicks == 7 * DayTicks

\* tz_offsets (lines 177-186) as main looks it up for these symbols
Configs ==
  { [symbol |-> "CL=F", tz |-> -10, offset |-> 33],
    [symbol |-> "EURUSD=X", tz |-> -10, offset |-> 34],
    [symbol |-> "^GSPC", tz |-> -10, offset |-> 32],
    [symbol |-> "BTC-USD", tz |-> 0, offset |-> 0],
    [symbol |-> "^FTSE", tz |-> 0, offset |-> 0],
    [symbol |-> "^N225", tz |-> 0, offset |-> 0] }

FloorTo(t, step) == (t \div step) * step

\* the label of the daily bin a bar falls in.  ^FTSE: two hours are taken off
\* the UTC index, the bins are the UTC days, and two hours are put back on
\* the labels.  Otherwise the bins of the local index start at the offset.
SessionLabel(c, t) ==
  IF c.symbol = "^FTSE" THEN FloorTo(t - 4, DayTicks) + 4
  ELSE FloorTo((t + c.tz) - c.offset, DayTicks) + c.offset

\* resample("1D").agg(first/max/min/last).dropna(): one candle per bin that
\* holds a bar, ascending; its day is the calendar day of its label
resample_daily(b, c) ==
  LET labels == SortedSeq({SessionLabel(c, b[i].t) : i \in DOMAIN b})
  IN [k \in DOMAIN labels |->
        LET d == SelectSeq(b, LAMBDA x : SessionLabel(c, x.t) = labels[k])
        IN [day |-> labels[k] \div DayTicks,
            Open |-> d[1].Open,
            High |-> ColMax(d, "High"),
            Low |-> ColMin(d, "Low"),
            Close |-> d[Len(d)].Close]]

-----------------------------------------------------------------------------
(* analyze_symbol *)

SHORT == "SHORT"
LONG == "LONG"
\* the dash shown when there is no signal
NO_SIGNAL == "-"

Mark(b) == IF b THEN TICK ELSE CROSS

FlagFields ==
  {"Inside Week", "Inside PW Range", "HOM", "HOW", "FRD", "LOM", "LOW", "FGD", "Inside Day"}

\* gd is what get_data(symbol, ...) returned or raised.  The predicates are
\* evaluated in the order of the source; the first exception propagates.
analyze_symbol(symbol, gd) ==
  IF gd.exc # "none" THEN Raise(gd.exc)
  ELSE
    LET s == gd.val
        hom == is_high_of_month(s)
        lom == is_low_of_month(s)
        frd == is_red_day(s)
        fgd == is_green_day(s)
        iw == is_inside_week(s)
        pw == in_previous_week_range(s)
        how == is_high_of_week(s)
        low == is_low_of_week(s)
        iday == is_inside_day(s)
        evaluated == <<hom, lom, frd, fgd, iw, pw, how, low, iday>>
        failed == {i \in DOMAIN evaluated : evaluated[i].exc # "none"}
        signal == IF hom.val /\ frd.val THEN SHORT
                  ELSE IF lom.val /\ fgd.val THEN LONG
                  ELSE NO_SIGNAL
    IN IF failed # {}
       THEN Raise(evaluated[CHOOSE i \in failed : \A j \in failed : i <= j].exc)
       ELSE Ret([f \in {"Symbol", "Signal"} \cup FlagFields |->
                   CASE f = "Symbol" -> symbol
                     [] f = "Signal" -> signal
                     [] f = "Inside Week" -> Mark(iw.val)
                     [] f = "Inside PW Range" -> Mark(pw.val)
                     [] f = "HOM" -> Mark(hom.val)
                     [] f = "HOW" -> Mark(how.val)
                     [] f = "FRD" -> Mark(frd.val)
                     [] f = "LOM" -> Mark(lom.val)
                     [] f = "LOW" -> Mark(low.val)
                     [] f = "FGD" -> Mark(fgd.val)
                     [] f = "Inside Day" -> Mark(iday.val)])

-----------------------------------------------------------------------------
(* The Daily Candle Series the scenarios draw from *)

\* well-formed candles over the prices 1 and 2
Shapes ==
  {c \in [Open : 1..2, High : 1..2, Low : 1..2, Close : 1..2] :
     c.High >= Max2(c.Open, c.Close) /\ c.Low <= Min2(c.Open, c.Close)}

\* the calendar day of the k-th trading session (Monday..Friday) from day 0
TradingDay(k) == (k \div 5) * 7 + (k % 5)

Stamp(shapes, start) ==
  [k \in DOMAIN shapes |->
     [day |-> TradingDay(start + k - 1), Open |-> shapes[k].Open, High |-> shapes[k].High,
      Low |-> shapes[k].Low, Close |-> shapes[k].Close]]

\* series of up to MaxLen sessions, the first one a Monday or a Friday
DailyInputs ==
  {Stamp(sh, start) : sh \in UNION {[1..n -> Shapes] : n \in 0..MaxLen}, start \in {0, 4}}

NoOut == [fn |-> "none", exc |-> "none", val |-> FALSE]

Idle ==
  /\ idx = 0 /\ test = "none" /\ rows = <<>> /\ calls = <<>>
  /\ columns = <<>> /\ bars = <<>> /\ cfg = "none"

-----------------------------------------------------------------------------
(* Scenario: one predicate, or analyze_symbol, applied to a series *)

InitPredicates ==
  /\ pc = "input" /\ data \in DailyInputs /\ out = NoOut /\ Idle

Returned(fn, r) ==
  /\ pc = "input"
  /\ pc' = "returned"
  /\ out' = [fn |-> fn, exc |-> r.exc, val |-> r.val]
  /\ UNCHANGED <<data, idx, test, rows, calls, columns, bars, cfg>>

Call_is_high_of_month == Returned("is_high_of_month", is_high_of_month(data))
Call_is_high_of_week == Returned("is_high_of_week", is_high_of_week(data))
Call_is_low_of_month == Returned("is_low_of_month", is_low_of_month(data))
Call_is_low_of_week == Returned("is_low_of_week", is_low_of_week(data))
Call_is_red_day == Returned("is_red_day", is_red_day(data))
Call_is_green_day == Returned("is_green_day", is_green_day(data))
Call_is_inside_day == Returned("is_inside_day", is_inside_day(data))
Call_is_inside_week == Returned("is_inside_week", is_inside_week(data))
Call_in_previous_week_range == Returned("in_previous_week_range", in_previous_week_range(data))
Call_analyze_symbol == Returned("analyze_symbol", analyze_symbol("CL=F", Ret(data)))

NextPredicates ==
  \/ Call_is_high_of_month
  \/ Call_is_high_of_week
  \/ Call_is_low_of_month
  \/ Call_is_low_of_week
  \/ Call_is_red_day
  \/ Call_is_green_day
  \/ Call_is_inside_day
  \/ Call_is_inside_week
  \/ Call_in_previous_week_range
  \/ Call_analyze_symbol

SpecPredicates == InitPredicates /\ [][NextPredicates]_vars

-----------------------------------------------------------------------------
(* main: the loop over the configured universe *)

\* the first symbol of the first three configured groups, in configuration order
Universe ==
  << [sym |-> "CL=F", name |-> "WTI Crude Oil", group |-> "Commodities"],
     [sym |-> "^GSPC", name |-> "S&P 500", group |-> "Indices"],
     [sym |-> "EURUSD=X", name |-> "EUR/USD", group |-> "FX"] >>

no_data_template ==
  [f \in {"Signal"} \cup FlagFields |-> IF f = "Signal" THEN NO_SIGNAL ELSE "No data"]

\* {"Asset": name, "Symbol": sym, **no_data_template}
NoDataRow(u) ==
  [f \in {"Asset", "Symbol"} |-> IF f = "Asset" THEN u.name ELSE u.sym] @@ no_data_template

\* row = {"Asset": name, "Symbol": sym}; row.update({k: "Error" for k in no_data_template})
ErrorRow(u) ==
  [f \in {"Asset", "Symbol"} |-> IF f = "Asset" THEN u.name ELSE u.sym]
    @@ [k \in DOMAIN no_data_template |-> "Error"]

\* res = analyze_symbol(...); res["Asset"] = name
FullRow(u, res) == [f \in {"Asset"} |-> u.name] @@ res

\* what the pre-flight yf.download(sym, period="5d", interval="1d") can do
TestOutcomes == {"raises", "None", "empty", "nonempty"}

\* the pre-flight check that lets only a raised exception skip the analysis
PreflightFailedOnRaise(t) == t = "raises"

\* the try block raises: the download raised, or test is None or test.empty
PreflightFailed(t) == t \in {"raises", "None", "empty"}

\* what get_data can hand to analyze_symbol: an exception of the download or
\* of the column check, or a Daily Candle Series
GetDataOutcomes == {Raise("KeyError")} \cup {Ret(s) : s \in DailyInputs}

\* what analyze_symbol can return or raise for the k-th configured symbol
AnalyzeOutcomes ==
  [k \in DOMAIN Universe |-> {analyze_symbol(Universe[k].sym, gd) : gd \in GetDataOutcomes}]

Init ==
  /\ pc = "preflight" /\ idx = 1 /\ test = "none" /\ rows = <<>> /\ calls = <<>>
  /\ data = <<>> /\ out = NoOut /\ columns = <<>> /\ bars = <<>> /\ cfg = "none"

\* the pre-flight step without its continue: after the no-data row the loop
\* body goes on to the analysis of the same symbol
PreflightNoContinue ==
  /\ pc = "preflight" /\ idx <= Len(Universe)
  /\ \E t \in TestOutcomes :
       /\ test' = t
       /\ calls' = Append(calls, [op |-> "download", sym |-> Universe[idx].sym, result |-> t])
       /\ rows' = IF PreflightFailed(t) THEN Append(rows, NoDataRow(Universe[idx])) ELSE rows
       /\ pc' = "analyze"
       /\ UNCHANGED idx
  /\ UNCHANGED <<data, out, columns, bars, cfg>>

\* lines 205-213: the pre-flight download; a failure appends the no-data row
\* and continues with the next symbol
Preflight ==
  /\ pc = "preflight" /\ idx <= Len(Universe)
  /\ \E t \in TestOutcomes :
       /\ test' = t
       /\ calls' = Append(calls, [op |-> "download", sym |-> Universe[idx].sym, result |-> t])
       /\ IF PreflightFailed(t)
          THEN /\ rows' = Append(rows, NoDataRow(Universe[idx]))
               /\ idx' = idx + 1
               /\ pc' = "preflight"
          ELSE /\ pc' = "analyze"
               /\ UNCHANGED <<rows, idx>>
  /\ UNCHANGED <<data, out, columns, bars, cfg>>

\* lines 215-223: analyze_symbol in its try block; an exception appends the
\* error row
Analyze ==
  /\ pc = "analyze"
  /\ \E res \in AnalyzeOutcomes[idx] :
       rows' = Append(rows, IF res.exc = "none" THEN FullRow(Universe[idx], res.val)
                            ELSE ErrorRow(Universe[idx]))
  /\ calls' = Append(calls, [op |-> "analyze_symbol", sym |-> Universe[idx].sym, result |-> "none"])
  /\ idx' = idx + 1
  /\ pc' = "preflight"
  /\ UNCHANGED <<test, data, out, columns, bars, cfg>>

\* the loop has run off the end of the universe: the report is written
Finish ==
  /\ pc = "preflight" /\ idx > Len(Universe)
  /\ pc' = "done"
  /\ UNCHANGED <<idx, test, rows, calls, data, out, columns, bars, cfg>>

Next == Preflight \/ Analyze \/ Finish

Spec == Init /\ [][Next]_vars

-----------------------------------------------------------------------------
(* Scenario: a month of candles with the extreme at index -2, one candle     *)
(* then pushed beyond it                                                     *)

MonthLen == MonthWindow + Extra

\* flat candles (High 5, Low 4); the candle at index -2 has High 7 and Low 2;
\* one other candle a has High h and Low l
MonthSeries(a, h, l) ==
  [k \in 1..MonthLen |->
     [day |-> TradingDay(k - 1), Open |-> 4, Close |-> 4,
      High |-> IF k = MonthLen - 1 THEN 7 ELSE IF k = a THEN h ELSE 5,
      Low |-> IF k = MonthLen - 1 THEN 2 ELSE IF k = a THEN l ELSE 4]]

InWindow(s, i) == i > Len(s) - MonthWindow

InitMonth ==
  /\ pc = "input" /\ out = NoOut /\ Idle
  /\ \E a \in (1..MonthLen) \ {MonthLen - 1}, h \in {5, 7, 8}, l \in {4, 2, 1} :
       data = MonthSeries(a, h, l)

\* candle i gets a High strictly above the High at index -2; is_high_of_month
\* is evaluated before and after
PerturbHigh ==
  /\ pc = "input"
  /\ \E i \in (1..Len(data)) \ {Len(data) - 1} :
       LET moved == [data EXCEPT ![i].High = iloc(data, 2).High + 1]
       IN /\ data' = moved
          /\ out' = [fn |-> "is_high_of_month", i |-> i,
                     pre |-> \A k \in DOMAIN data : InWindow(data, k) => data[k].High <= iloc(data, 2).High,
                     before |-> is_high_of_month(data), after |-> is_high_of_month(moved)]
  /\ pc' = "returned"
  /\ UNCHANGED <<idx, test, rows, calls, columns, bars, cfg>>

\* candle i gets a Low strictly below the Low at index -2; is_low_of_month is
\* evaluated before and after
PerturbLow ==
  /\ pc = "input"
  /\ \E i \in (1..Len(data)) \ {Len(data) - 1} :
       LET moved == [data EXCEPT ![i].Low = iloc(data, 2).Low - 1]
       IN /\ data' = moved
          /\ out' = [fn |-> "is_low_of_month", i |-> i,
                     pre |-> \A k \in DOMAIN data : InWindow(data, k) => data[k].Low >= iloc(data, 2).Low,
                     before |-> is_low_of_month(data), after |-> is_low_of_month(moved)]
  /\ pc' = "returned"
  /\ UNCHANGED <<idx, test, rows, calls, columns, bars, cfg>>

NextMonth == PerturbHigh \/ PerturbLow

SpecMonth == InitMonth /\ [][NextMonth]_vars

-----------------------------------------------------------------------------
(* Scenario: the weekly predicates on series that span several weeks *)

\* (High, Low) of the sessions, and the days from one session to the next:
\* the next day, a week later, 52 weeks later
HighLows == {<<3, 1>>, <<2, 2>>, <<3, 2>>}
Gaps == {1, 7, 364}

RECURSIVE DayAt(_, _)
\* the first session is a Saturday (day 5)
DayAt(gaps, k) == IF k = 1 THEN 5 ELSE DayAt(gaps, k - 1) + gaps[k]

WeeklySeries(hl, g) ==
  [k \in DOMAIN hl |->
     [day |-> DayAt(g, k), Open |-> hl[k][2], High |-> hl[k][1],
      Low |-> hl[k][2], Close |-> hl[k][1]]]

InitWeekly ==
  /\ pc = "input" /\ out = NoOut /\ Idle
  /\ \E n \in 0..MaxDays : \E hl \in [1..n -> HighLows], g \in [1..n -> Gaps] :
       data = WeeklySeries(hl, g)

Call_get_weekly_data == Returned("get_weekly_data", Ret(get_weekly_data(data)))

\* lines 131-132 of analyze_symbol: both weekly flags of one series
Call_weekly_flags ==
  /\ pc = "input"
  /\ pc' = "returned"
  /\ out' = [fn |-> "weekly_flags", exc |-> "none",
             iw |-> is_inside_week(data).val, pw |-> in_previous_week_range(data).val]
  /\ UNCHANGED <<data, idx, test, rows, calls, columns, bars, cfg>>

NextWeekly ==
  \/ Call_get_weekly_data
  \/ Call_is_inside_week
  \/ Call_in_previous_week_range
  \/ Call_weekly_flags

SpecWeekly == InitWeekly /\ [][NextWeekly]_vars

-----------------------------------------------------------------------------
(* Scenario: the column repair on a layout as the download may label it *)

LabelChoices ==
  {Name("Open"), Name("High"), Name("Low"), Name("Close"), Name("Price"), <<"cl=f", "open">>}

\* a flat layout, or a two-level layout with the ticker as outer level
Layout(multi, c) ==
  [multi |-> multi,
   cols |-> IF multi THEN [i \in DOMAIN c |-> <<Name("CL=F"), c[i]>>] ELSE c]

InitColumns ==
  /\ pc = "input" /\ out = NoOut
  /\ \E n \in 1..MaxCols : \E c \in [1..n -> LabelChoices], multi \in BOOLEAN :
       columns = Layout(multi, c)
  /\ data = <<>> /\ idx = 0 /\ test = "none" /\ rows = <<>> /\ calls = <<>>
  /\ bars = <<>> /\ cfg = "none"

FixColumns ==
  /\ pc = "input"
  /\ pc' = "returned"
  /\ LET r == fix_columns(columns)
     IN /\ columns' = [multi |-> FALSE, cols |-> r.cols]
        /\ out' = [fn |-> "fix_columns", exc |-> r.exc, applied |-> r.applied, given |-> columns]
  /\ UNCHANGED <<data, idx, test, rows, calls, bars, cfg>>

NextColumns == FixColumns

SpecColumns == InitColumns /\ [][NextColumns]_vars

-----------------------------------------------------------------------------
(* Scenario: gap-free hourly bars resampled to sessions and then to weeks *)

\* the first bar is that of Thursday 00:00 UTC of the second week
StartTick == WeekTicks + 3 * DayTicks

\* flat bars (Open 4, High 5, Low 3, Close 4), one every hour; bar p spikes
\* (High 9, Close 6) or dips (Low 1, Close 2)
HourlyBars(p, kind) ==
  [k \in 1..(24 * NumDays) |->
     [t |-> StartTick + 2 * (k - 1), Open |-> 4,
      High |-> IF k = p /\ kind = "spike" THEN 9 ELSE 5,
      Low |-> IF k = p /\ kind = "dip" THEN 1 ELSE 3,
      Close |-> IF k # p THEN 4 ELSE IF kind = "spike" THEN 6 ELSE 2]]

InitResample ==
  /\ pc = "input" /\ out = NoOut /\ data = <<>>
  /\ cfg \in Configs
  /\ \E p \in 1..(24 * NumDays), kind \in {"spike", "dip"} : bars = HourlyBars(p, kind)
  /\ idx = 0 /\ test = "none" /\ rows = <<>> /\ calls = <<>> /\ columns = <<>>

\* get_data, lines 34-57: the hourly bars become the Daily Candle Series
ResampleDaily ==
  /\ pc = "input"
  /\ pc' = "daily"
  /\ data' = resample_daily(bars, cfg)
  /\ UNCHANGED <<out, idx, test, rows, calls, columns, bars, cfg>>

\* get_weekly_data on what get_data returned
ResampleWeekly ==
  /\ pc = "daily"
  /\ pc' = "weekly"
  /\ out' = [fn |-> "get_weekly_data", exc |-> "none", val |-> get_weekly_data(data)]
  /\ UNCHANGED <<data, idx, test, rows, calls, columns, bars, cfg>>

NextResample == ResampleDaily \/ ResampleWeekly

SpecResample == InitResample /\ [][NextResample]_vars

-----------------------------------------------------------------------------
(* Properties of the predicates and of analyze_symbol (SpecPredicates) *)

DailyPredicates ==
  {"is_high_of_month", "is_high_of_week", "is_low_of_month", "is_low_of_week",
   "is_red_day", "is_green_day", "is_inside_day"}

\* the candles a predicate reads back from the end of the daily series
CandlesRead(fn) == IF fn = "is_inside_day" THEN 3 ELSE 2

\* C3: a predicate evaluated on a series too short for the candles it reads
\* (0, 1 or 2 candles) returns false and does not raise.
C3_ShortSeriesReturnsFalse ==
  (pc = "returned" /\ out.fn \in DailyPredicates /\ Len(data) < CandlesRead(out.fn))
    => (out.exc = "none" /\ out.val = FALSE)

\* C4 as stated: on exactly 2 candles is_red_day and is_green_day return false.
C4_TwoCandlesReturnFalse ==
  (pc = "returned" /\ out.fn \in {"is_red_day", "is_green_day"} /\ Len(data) = 2)
    => (out.exc = "none" /\ out.val = FALSE)

\* C4 as amended: is_red_day and is_green_day never raise; on fewer than 2
\* candles both return false; on exactly 2 candles they judge the first candle
\* (index -2): red iff its Close < its Open, green iff its Close > its Open.
C4_TwoCandlesJudgeFirst ==
  (pc = "returned" /\ out.fn \in {"is_red_day", "is_green_day"} /\ Len(data) <= 2)
    => /\ out.exc = "none"
       /\ Len(data) < 2 => out.val = FALSE
       /\ (Len(data) = 2 /\ out.fn = "is_red_day") => (out.val <=> data[1].Close < data[1].Open)
       /\ (Len(data) = 2 /\ out.fn = "is_green_day") => (out.val <=> data[1].Close > data[1].Open)

\* is_red_day has returned true on a series of exactly 2 candles
C4_Witness ==
  pc = "returned" /\ out.fn = "is_red_day" /\ Len(data) = 2 /\ out.exc = "none" /\ out.val = TRUE

\* the last closed session (index -2) holds the extreme of the trailing month
HighOfMonth(s) ==
  \A i \in DOMAIN s : i > Len(s) - MonthWindow => s[i].High <= s[Len(s) - 1].High
LowOfMonth(s) ==
  \A i \in DOMAIN s : i > Len(s) - MonthWindow => s[i].Low >= s[Len(s) - 1].Low
ShortCondition(s) == HighOfMonth(s) /\ s[Len(s) - 1].Close < s[Len(s) - 1].Open
LongCondition(s) == LowOfMonth(s) /\ s[Len(s) - 1].Close > s[Len(s) - 1].Open

-----------------------------------------------------------------------------
(* Properties of main (Spec) *)

Marks == {TICK, CROSS}
IsFullRow(r) ==
  /\ \A f \in FlagFields : r[f] \in Marks
  /\ r["Signal"] \in {SHORT, LONG, NO_SIGNAL}
IsNoDataRow(r) == \A f \in FlagFields : r[f] = "No data"
IsErrorRow(r) == \A f \in FlagFields : r[f] = "Error"

\* the symbols the loop has finished with
Handled == IF pc = "analyze" THEN idx - 1 ELSE Min2(idx - 1, Len(Universe))

\* C1: whatever the per-instrument outcomes, the k-th row is the row of the
\* k-th configured instrument (no instrument has zero or two rows), each row
\* has one of the three uniform shapes, and the finished loop has covered the
\* whole universe.
C1_OneUniformRowPerInstrument ==
  /\ Len(rows) = Handled
  /\ pc = "done" => Len(rows) = Len(Universe)
  /\ \A k \in DOMAIN rows :
       /\ rows[k]["Symbol"] = Universe[k].sym
       /\ rows[k]["Asset"] = Universe[k].name
       /\ IsFullRow(rows[k]) \/ IsNoDataRow(rows[k]) \/ IsErrorRow(rows[k])

\* the loop has finished with one row of each shape
C1_Witness ==
  /\ pc = "done"
  /\ \E a, b, c \in DOMAIN rows : IsFullRow(rows[a]) /\ IsNoDataRow(rows[b]) /\ IsErrorRow(rows[c])

CallsOf(op, sym) == {j \in DOMAIN calls : calls[j].op = op /\ calls[j].sym = sym}

\* C2: an instrument whose pre-flight check raised or came back empty or
\* absent gets the row of "No data" flags with the dash as Signal, and
\* analyze_symbol is not invoked for it; analyze_symbol is invoked only right
\* after a pre-flight check of the same instrument that was non-empty.
C2_PreflightGatesAnalysis ==
  /\ \A j \in DOMAIN calls :
       (calls[j].op = "download" /\ PreflightFailed(calls[j].result)) =>
          /\ CallsOf("analyze_symbol", calls[j].sym) = {}
          /\ \E k \in DOMAIN rows :
               /\ rows[k]["Symbol"] = calls[j].sym
               /\ rows[k]["Signal"] = NO_SIGNAL
               /\ \A f \in FlagFields : rows[k][f] = "No data"
  /\ \A j \in DOMAIN calls :
       calls[j].op = "analyze_symbol" =>
          /\ j > 1
          /\ calls[j - 1] = [op |-> "download", sym |-> calls[j].sym, result |-> "nonempty"]

\* one instrument was skipped on an empty pre-flight result and a later one
\* was analysed
C2_Witness ==
  \E i, j \in DOMAIN calls :
    /\ i < j
    /\ calls[i].op = "download" /\ calls[i].result = "empty"
    /\ calls[j].op = "analyze_symbol"

-----------------------------------------------------------------------------
(* Properties of the of-month predicates (SpecMonth) *)

\* C6 as stated: with the extreme of the last 22 candles at index -2 the
\* predicate is true, and pushing any other candle of the series beyond it
\* makes the predicate false.
C6_AnyCandleFlips ==
  (pc = "returned" /\ out.pre) => (out.before.val = TRUE /\ out.after.val = FALSE)

\* C6 as amended: with the extreme of the last 22 candles at index -2 the
\* predicate is true; pushing another candle beyond it makes the predicate
\* false iff that candle is one of the last 22, and leaves it true when the
\* candle is older.
C6_WindowCandleFlips ==
  (pc = "returned" /\ out.pre) =>
     /\ out.before = Ret(TRUE)
     /\ out.after = Ret(~(out.i > Len(data) - 22))

\* an older candle was pushed above the High at index -2 and the predicate
\* stayed true
C6_Witness ==
  /\ pc = "returned" /\ out.fn = "is_high_of_month" /\ out.pre
  /\ out.i <= Len(data) - 22 /\ out.after.val = TRUE
  /\ data[out.i].High > iloc(data, 2).High

-----------------------------------------------------------------------------
(* Properties of the weekly predicates (SpecWeekly) *)

Inside(a, b) == a.High <= b.High /\ a.Low >= b.Low

\* C7: is_inside_week is false on fewer than 2 weekly candles; otherwise it
\* tells whether the last completed week, the weekly candle before the week
\* of the latest daily candle, lies inside the week before it.
C7_CompletedWeekInside ==
  (pc = "returned" /\ out.fn = "is_inside_week") =>
     LET wk == get_weekly_data(data)
     IN /\ out.exc = "none"
        /\ Len(wk) < 2 => out.val = FALSE
        /\ Len(wk) >= 3 => (out.val <=> Inside(wk[Len(wk) - 1], wk[Len(wk) - 2]))

SharedWeekNumber(s) ==
  \E i, j \in DOMAIN s : WeekOf(s[i].day) # WeekOf(s[j].day) /\ IsoWeek(s[i].day) = IsoWeek(s[j].day)

-----------------------------------------------------------------------------
(* Properties of the column repair (SpecColumns) *)

\* C8 as stated: at most one of the rules 1 to 4 relabels the columns.
C8_FirstMatchOnly ==
  (pc = "returned" /\ out.fn = "fix_columns") => Cardinality(out.applied \cap {1, 2, 3, 4}) <= 1

\* the inner labels of a two-level layout, the labels themselves otherwise
Collapsed(layout) ==
  IF layout.multi THEN [i \in DOMAIN layout.cols |-> layout.cols[i][2]] ELSE layout.cols

\* C8 as amended: rule 1 collapses every two-level header, whatever follows;
\* rules 2, 3 and 4 are then tried in order on the collapsed labels and only
\* the first whose condition matches is applied.
C8_FirstMatchAfterCollapse ==
  (pc = "returned" /\ out.fn = "fix_columns") =>
     LET c == Collapsed(out.given)
         same5 == Len(c) >= 5 /\ \A i, j \in DOMAIN c : c[i] = c[j]
         allsep == \A i \in DOMAIN c : Len(c[i]) > 1
         lacking == \E w \in {"Open", "High", "Low", "Close"} : \A i \in DOMAIN c : c[i] # <<w>>
     IN /\ (1 \in out.applied) <=> out.given.multi
        /\ Cardinality(out.applied \cap {2, 3, 4}) <= 1
        /\ (2 \in out.applied) <=> same5
        /\ (3 \in out.applied) <=> (~same5 /\ allsep)
        /\ (4 \in out.applied) <=> (~same5 /\ ~allsep /\ lacking)

\* a two-level header was collapsed and its labels were then assigned by
\* position
C8_Witness ==
  /\ pc = "returned" /\ out.fn = "fix_columns" /\ out.given.multi
  /\ out.applied = {1, 2}
  /\ columns.cols = <<<<"Open">>, <<"High">>, <<"Low">>, <<"Close">>, <<"Volume">>>>

-----------------------------------------------------------------------------
(* Properties of the resampling (SpecResample) *)

\* the local tick of a bar, and the local tick at which its session began:
\* the cutoff before it (02:00 UTC for ^FTSE)
LocalTick(c, t) == IF c.symbol = "^FTSE" THEN t ELSE t + c.tz
Cutoff(c) == IF c.symbol = "^FTSE" THEN 4 ELSE c.offset

\* High = max, Low = min, Close = last of the bars that Key puts in week w
Aggregate(b, Key(_), w) ==
  LET in == {i \in DOMAIN b : Key(b[i]) = w}
      last == CHOOSE i \in in : \A j \in in : j <= i
  IN [week |-> w,
      High |-> CHOOSE h \in {b[i].High : i \in in} : \A i \in in : b[i].High <= h,
      Low |-> CHOOSE l \in {b[i].Low : i \in in} : \A i \in in : b[i].Low >= l,
      Close |-> b[last].Close]

HLC(w) == [week |-> w.week, High |-> w.High, Low |-> w.Low, Close |-> w.Close]

CalendarWeek(x) == LocalTick(cfg, x.t) \div 336
\* the calendar week of the local time less the cutoff
SessionWeek(x) == (LocalTick(cfg, x.t) - Cutoff(cfg)) \div 336

\* C9 as stated: every weekly candle has the High, Low and Close of the
\* hourly bars of its calendar week.
C9_WeeklyOfCalendarWeek ==
  (pc = "weekly") =>
     \A k \in DOMAIN out.val :
        /\ \E i \in DOMAIN bars : CalendarWeek(bars[i]) = out.val[k].week
        /\ HLC(out.val[k]) = Aggregate(bars, CalendarWeek, out.val[k].week)

\* C9 as amended: every weekly candle has the High, Low and Close of the
\* hourly bars whose session began in its calendar week (the bars whose local
\* time less the cutoff-offset, 2 hours for ^FTSE, falls in that week), and
\* every bar is in one weekly candle; with a cutoff-offset of 0h these are
\* the bars of the calendar week itself.
C9_WeeklyOfSessionWeek ==
  (pc = "weekly") =>
     /\ {out.val[k].week : k \in DOMAIN out.val} = {SessionWeek(bars[i]) : i \in DOMAIN bars}
     /\ \A k \in DOMAIN out.val :
          HLC(out.val[k]) = Aggregate(bars, SessionWeek, out.val[k].week)
     /\ Cutoff(cfg) = 0 =>
          \A k \in DOMAIN out.val :
             HLC(out.val[k]) = Aggregate(bars, CalendarWeek, out.val[k].week)

\* a spike early on Monday, before the cutoff, is the High of the week that
\* ended on Sunday
C9_Witness ==
  /\ pc = "weekly" /\ cfg.symbol = "CL=F" /\ Len(out.val) = 2
  /\ out.val[1].High = 9
  /\ \E i \in DOMAIN bars : bars[i].High = 9 /\ CalendarWeek(bars[i]) = out.val[2].week

====
